---- MODULE Spec2Model ----
(***************************************************************************)
(* A model of src/app.py: the favourites and reviews tables with their     *)
(* data-access functions and form routes, and the catalog pipeline         *)
(* (fetch_top_sellers, get_steam_game, index, search).                     *)
(*                                                                         *)
(* Python values that may be an int, a str or None are records             *)
(* [t, n, s]; a str is kept as the sequence of its characters so that      *)
(* int(), strip() and truthiness are computed, not assumed.                *)
(***************************************************************************)
EXTENDS Integers, Sequences, FiniteSets, TLC

VARIABLES favourites, reviews, clock, last, resp, listed,
          pc, cat_in, top_ids, games, yt_calls

vars == <<favourites, reviews, clock, last, resp, listed,
          pc, cat_in, top_ids, games, yt_calls>>

catalog_vars == <<pc, cat_in, top_ids, games, yt_calls>>

(***************************************************************************)
(* Bounds of the model.                                                    *)
(***************************************************************************)
MaxClock == 1

MaxReviews == 2

MaxFavId == 3

TicksPerSecond == 2

(***************************************************************************)
(* Python values.                                                          *)
(***************************************************************************)
PyNone == [t |-> "none", n |-> 0, s |-> <<>>]

PyInt(k) == [t |-> "int", n |-> k, s |-> <<>>]

PyStr(chars) == [t |-> "str", n |-> 0, s |-> chars]

\* bool(v): None, 0 and "" are falsy.
Truthy(v) ==
    CASE v.t = "none" -> FALSE
      [] v.t = "int" -> v.n # 0
      [] OTHER -> v.s # <<>>

\* a or b
PyOr(a, b) == IF Truthy(a) THEN a ELSE b

IsSpace(c) == c \in {" ", "\t", "\n"}

RECURSIVE LStrip(_)
LStrip(s) ==
    IF s # <<>> /\ IsSpace(Head(s)) THEN LStrip(Tail(s)) ELSE s

RECURSIVE RStrip(_)
RStrip(s) ==
    IF s # <<>> /\ IsSpace(s[Len(s)]) THEN RStrip(SubSeq(s, 1, Len(s) - 1)) ELSE s

\* str.strip()
Strip(s) == RStrip(LStrip(s))

DigitChars == <<"0", "1", "2", "3", "4", "5", "6", "7", "8", "9">>

IsDigit(c) == \E i \in 1..Len(DigitChars) : DigitChars[i] = c

DigitVal(c) == (CHOOSE i \in 1..Len(DigitChars) : DigitChars[i] = c) - 1

RECURSIVE DigitsVal(_)
DigitsVal(s) ==
    IF s = <<>> THEN 0
    ELSE 10 * DigitsVal(SubSeq(s, 1, Len(s) - 1)) + DigitVal(s[Len(s)])

\* int(v): an int is itself; a str is stripped, may carry a sign, and must then
\* be all digits (ValueError otherwise); None is a TypeError.
PyIntOf(v) ==
    CASE v.t = "int" -> [ok |-> TRUE, val |-> v.n, err |-> ""]
      [] v.t = "none" -> [ok |-> FALSE, val |-> 0, err |-> "TypeError"]
      [] OTHER ->
           LET body == Strip(v.s)
               signed == body # <<>> /\ Head(body) \in {"+", "-"}
               digits == IF signed THEN Tail(body) ELSE body
               good == digits # <<>> /\ \A i \in 1..Len(digits) : IsDigit(digits[i])
           IN  IF ~good THEN [ok |-> FALSE, val |-> 0, err |-> "ValueError"]
               ELSE [ok |-> TRUE,
                     val |-> IF signed /\ Head(body) = "-"
                             THEN 0 - DigitsVal(digits) ELSE DigitsVal(digits),
                     err |-> ""]

(***************************************************************************)
(* The record of the last call and of the last HTTP response.              *)
(***************************************************************************)
Call(op, appid, ret, raised, newid, rating, text) ==
    [op |-> op, appid |-> appid, ret |-> ret, raised |-> raised, newid |-> newid,
     rating |-> rating, text |-> text]

NoCall == Call("none", 0, FALSE, "", 0, PyNone, PyNone)

Response(kind, flash, category, target, appid) ==
    [kind |-> kind, flash |-> flash, category |-> category, target |-> target,
     appid |-> appid]

NoResponse == Response("none", "", "", "", 0)

ServerError == Response("error", "", "", "", 0)

\* redirect(request.referrer or url_for(endpoint))
ReferrerOr(referrer, endpoint) == IF Truthy(referrer) THEN "referrer" ELSE endpoint

(***************************************************************************)
(* Tables.  A table is the sequence of its rows in rowid order.            *)
(***************************************************************************)
RECURSIVE MaxId(_)
MaxId(rows) ==
    IF rows = <<>> THEN 0
    ELSE LET m == MaxId(Tail(rows))
         IN  IF Head(rows).id > m THEN Head(rows).id ELSE m

\* An INTEGER PRIMARY KEY column left unset takes the largest rowid plus one.
NextId(rows) == MaxId(rows) + 1

\* Model.query.filter_by(appid=a).first(): the index of the row, 0 for None.
FirstByAppid(rows, a) ==
    IF \E i \in 1..Len(rows) : rows[i].appid = a
    THEN CHOOSE i \in 1..Len(rows) :
             rows[i].appid = a /\ \A j \in 1..(i - 1) : rows[j].appid # a
    ELSE 0

DeleteAt(rows, i) == SubSeq(rows, 1, i - 1) \o SubSeq(rows, i + 1, Len(rows))

Favourite(id, appid, name, image, added_at) ==
    [id |-> id, appid |-> appid, name |-> name, image |-> image, added_at |-> added_at]

Review(id, appid, rating, text, created_at) ==
    [id |-> id, appid |-> appid, rating |-> rating, text |-> text,
     created_at |-> created_at]

\* Review.to_dict: created_at is cut to whole seconds.
Review_to_dict(r) ==
    [id |-> r.id, appid |-> r.appid, rating |-> r.rating, text |-> r.text,
     created_at |-> r.created_at \div TicksPerSecond]

(***************************************************************************)
(* Favourites.                                                             *)
(***************************************************************************)
add_favourite_db_nocheck(favs, appid, name, image, now) ==
    LET p == PyIntOf(appid)
    IN  IF ~p.ok THEN [favs |-> favs, ret |-> FALSE, raised |-> p.err]
        ELSE [favs |-> Append(favs, Favourite(NextId(favs), p.val, name, image, now)),
              ret |-> TRUE, raised |-> ""]

add_favourite_db_alwaystrue(favs, appid, name, image, now) ==
    LET p == PyIntOf(appid)
    IN  IF ~p.ok THEN [favs |-> favs, ret |-> FALSE, raised |-> p.err]
        ELSE IF FirstByAppid(favs, p.val) # 0
        THEN [favs |-> favs, ret |-> TRUE, raised |-> ""]
        ELSE [favs |-> Append(favs, Favourite(NextId(favs), p.val, name, image, now)),
              ret |-> TRUE, raised |-> ""]

add_favourite_db(favs, appid, name, image, now) ==
    LET p == PyIntOf(appid)
    IN  IF ~p.ok THEN [favs |-> favs, ret |-> FALSE, raised |-> p.err]
        ELSE IF FirstByAppid(favs, p.val) # 0
        THEN [favs |-> favs, ret |-> FALSE, raised |-> ""]
        ELSE IF name.t = "none"
        THEN [favs |-> favs, ret |-> FALSE, raised |-> "IntegrityError"]
        ELSE [favs |-> Append(favs, Favourite(NextId(favs), p.val, name, image, now)),
              ret |-> TRUE, raised |-> ""]

remove_favourite_db_keep(favs, appid) ==
    LET p == PyIntOf(appid)
    IN  IF ~p.ok THEN [favs |-> favs, ret |-> FALSE, raised |-> p.err]
        ELSE [favs |-> favs, ret |-> FirstByAppid(favs, p.val) # 0, raised |-> ""]

remove_favourite_db(favs, appid) ==
    LET p == PyIntOf(appid)
        i == FirstByAppid(favs, p.val)
    IN  IF ~p.ok THEN [favs |-> favs, ret |-> FALSE, raised |-> p.err]
        ELSE IF i = 0 THEN [favs |-> favs, ret |-> FALSE, raised |-> ""]
        ELSE [favs |-> DeleteAt(favs, i), ret |-> TRUE, raised |-> ""]

(***************************************************************************)
(* Reviews.                                                                *)
(***************************************************************************)
add_review_db(revs, appid, rating, text, now) ==
    LET a == PyIntOf(appid)
        r == PyIntOf(rating)
    IN  IF ~a.ok THEN [revs |-> revs, ret |-> FALSE, raised |-> a.err]
        ELSE IF ~r.ok THEN [revs |-> revs, ret |-> FALSE, raised |-> r.err]
        ELSE IF text.t # "str" THEN [revs |-> revs, ret |-> FALSE, raised |-> "AttributeError"]
        ELSE [revs |-> Append(revs, Review(NextId(revs), a.val, r.val, Strip(text.s), now)),
              ret |-> TRUE, raised |-> ""]

\* filter_by(appid=a): the rows of the app, in rowid order.
RowsOfApp(revs, a) == SelectSeq(revs, LAMBDA r : r.appid = a)

\* The bijections of 1..n.
Perms(n) == {p \in [1..n -> 1..n] : \A i, j \in 1..n : i # j => p[i] # p[j]}

\* order_by(created_at.desc()): every order of the rows that is descending in
\* created_at; the statement names no second key, so rows with equal
\* created_at come in whatever order the database produces them.
OrderByCreatedDesc(rows) ==
    {[i \in 1..Len(rows) |-> rows[p[i]]] : p \in
        {q \in Perms(Len(rows)) :
            \A i \in 1..(Len(rows) - 1) :
                rows[q[i]].created_at >= rows[q[i + 1]].created_at}}

\* The lists get_reviews_for_app(appid) may return.
get_reviews_for_app(revs, appid) ==
    {[i \in 1..Len(o) |-> Review_to_dict(o[i])] :
        o \in OrderByCreatedDesc(RowsOfApp(revs, PyIntOf(appid).val))}

(***************************************************************************)
(* The video fallback and the details call.                                *)
(*                                                                         *)
(* An HTTP exchange is given by what the far end does: status is "neterr"  *)
(* (connection error or timeout: requests.get raises), "http" (an error    *)
(* status: raise_for_status raises), "badjson" (r.json() raises) or "ok".  *)
(***************************************************************************)
\* "https://www.youtube.com/embed/", shortened.
EmbedPrefix == <<"y", "t", "/">>

\* search_youtube_trailer: the page either holds a first watch?v= id of eleven
\* characters (y.video_id, a str) or none (None); any error gives None.
search_youtube_trailer(game_name, y) ==
    IF y.status # "ok" THEN PyNone
    ELSE IF y.video_id.t = "str" THEN PyStr(EmbedPrefix \o y.video_id.s)
    ELSE PyNone

\* A movie's webm or mp4 entry: absent (or null), or a dict of the two sizes.
NoMedia == [present |-> FALSE, max |-> PyNone, low |-> PyNone]

Media(max, low) == [present |-> TRUE, max |-> max, low |-> low]

Movie(webm, mp4) == [isdict |-> TRUE, webm |-> webm, mp4 |-> mp4]

\* An entry of "movies" that is no dict.
NotAMovie == [isdict |-> FALSE, webm |-> NoMedia, mp4 |-> NoMedia]

\* first.get(kind) or {}, then .get(size)
MediaGet(m, size) ==
    IF ~m.present THEN PyNone ELSE IF size = "max" THEN m.max ELSE m.low

steam_trailer_mp4first(movies) ==
    IF movies = <<>> THEN PyNone
    ELSE LET first == movies[1]
             mp4 == PyOr(MediaGet(first.mp4, "max"), MediaGet(first.mp4, "480"))
         IN  IF Truthy(mp4) THEN mp4
             ELSE PyOr(MediaGet(first.webm, "max"), MediaGet(first.webm, "480"))

\* The Steam trailer attempt on d.get("movies") or []: only movies[0] is read.
steam_trailer(movies) ==
    IF movies = <<>> THEN PyNone
    ELSE LET first == movies[1]
             webm == PyOr(MediaGet(first.webm, "max"), MediaGet(first.webm, "480"))
         IN  IF Truthy(webm) THEN webm
             ELSE PyOr(MediaGet(first.mp4, "max"), MediaGet(first.mp4, "480"))

Game(appid, name, trailer_url) ==
    [isnone |-> FALSE, appid |-> appid, name |-> name, trailer_url |-> trailer_url]

\* The None get_steam_game returns.
NoGame == [isnone |-> TRUE, appid |-> PyNone, name |-> PyNone, trailer_url |-> PyNone]

\* get_steam_game(appid) on the details exchange d and the video exchange y:
\* the value returned and the names search_youtube_trailer was called with.
\* Of the fields of the result, appid, name and trailer_url are kept.
get_steam_game(appid, d, y) ==
    IF d.status # "ok" \/ ~d.haskey \/ ~d.success
    THEN [game |-> NoGame, yt |-> <<>>]
    ELSE IF d.movies # <<>> /\ ~d.movies[1].isdict
    THEN [game |-> NoGame, yt |-> <<>>]
    ELSE LET native == steam_trailer(d.movies)
         IN  IF Truthy(native)
             THEN [game |-> Game(appid, d.name, native), yt |-> <<>>]
             ELSE [game |-> Game(appid, d.name, search_youtube_trailer(d.name, y)),
                   yt |-> <<d.name>>]

(***************************************************************************)
(* Inputs of the details call.                                             *)
(***************************************************************************)
MaxMovies == 2

UrlWebmMax == PyStr(<<"w", "m">>)

UrlWebm480 == PyStr(<<"w", "4">>)

UrlMp4Max == PyStr(<<"m", "m">>)

UrlMp4480 == PyStr(<<"m", "4">>)

WebmEntries ==
    {NoMedia, Media(PyStr(<<>>), UrlWebm480)} \cup
    {Media(a, b) : a \in {PyNone, UrlWebmMax}, b \in {PyNone, UrlWebm480}}

Mp4Entries ==
    {NoMedia} \cup {Media(a, b) : a \in {PyNone, UrlMp4Max}, b \in {PyNone, UrlMp4480}}

FirstMovies == {NotAMovie} \cup {Movie(w, m) : w \in WebmEntries, m \in Mp4Entries}

LaterMovies == {Movie(NoMedia, NoMedia), Movie(NoMedia, Media(UrlMp4Max, PyNone))}

\* The lists "movies" may hold: empty (or absent, or null), or a first movie
\* followed by up to MaxMovies - 1 others.
MovieLists ==
    {<<>>} \cup
    UNION {{<<f>> \o rest : f \in FirstMovies, rest \in [1..k -> LaterMovies]} :
             k \in 0..(MaxMovies - 1)}

DetailsFailure(status) ==
    [status |-> status, haskey |-> FALSE, success |-> FALSE, name |-> PyNone,
     movies |-> <<>>]

DetailsJson(haskey, success, name, movies) ==
    [status |-> "ok", haskey |-> haskey, success |-> success, name |-> name,
     movies |-> movies]

GameName == PyStr(<<"C", "S">>)

DetailsResponses ==
    {DetailsFailure(st) : st \in {"neterr", "http", "badjson"}} \cup
    {DetailsJson(FALSE, FALSE, PyNone, <<>>), DetailsJson(TRUE, FALSE, PyNone, <<>>)} \cup
    {DetailsJson(TRUE, TRUE, n, ms) : n \in {GameName, PyNone}, ms \in MovieLists}

VideoResponses ==
    {[status |-> "neterr", video_id |-> PyNone],
     [status |-> "ok", video_id |-> PyNone],
     [status |-> "ok", video_id |-> PyStr(<<"a", "b", "c">>)]}

(***************************************************************************)
(* One call of get_steam_game.                                             *)
(***************************************************************************)
GetSteamGame ==
    /\ pc = "ready"
    /\ LET r == get_steam_game(PyInt(cat_in.appid), cat_in.details, cat_in.video)
       IN  /\ games' = <<r.game>>
           /\ yt_calls' = r.yt
    /\ pc' = "done"
    /\ last' = Call("get_steam_game", cat_in.appid, FALSE, "", 0, PyNone, PyNone)
    /\ UNCHANGED <<favourites, reviews, clock, resp, listed, cat_in, top_ids>>

(***************************************************************************)
(* The featured categories call.                                           *)
(*                                                                         *)
(* The exchange c holds the values of the top-level JSON object in key     *)
(* order (isdict is FALSE when the document is no object).  A value is a   *)
(* list (kind "list", its elements in items), an object (kind "object";    *)
(* hasitems says its "items" is a list, held in items) or anything else    *)
(* (kind "scalar").  An element is a dict with the fields id and appid     *)
(* (PyNone when absent) or no dict at all.                                 *)
(***************************************************************************)
Element(id, appid) == [isdict |-> TRUE, id |-> id, appid |-> appid]

NotADict == [isdict |-> FALSE, id |-> PyNone, appid |-> PyNone]

CategoryList(items) == [kind |-> "list", hasitems |-> FALSE, items |-> items]

CategoryObject(hasitems, items) == [kind |-> "object", hasitems |-> hasitems, items |-> items]

CategoryScalar == [kind |-> "scalar", hasitems |-> FALSE, items |-> <<>>]

\* The inner loops: appid = item.get("id") or item.get("appid"); if appid:
\* sellers.append(int(appid)).  ok is FALSE when a step raises.
RECURSIVE collect_items(_, _)
collect_items(items, sellers) ==
    IF items = <<>> THEN [ok |-> TRUE, ids |-> sellers]
    ELSE LET item == Head(items)
             appid == PyOr(item.id, item.appid)
             p == PyIntOf(appid)
         IN  IF ~item.isdict THEN [ok |-> FALSE, ids |-> sellers]
             ELSE IF ~Truthy(appid) THEN collect_items(Tail(items), sellers)
             ELSE IF ~p.ok THEN [ok |-> FALSE, ids |-> sellers]
             ELSE collect_items(Tail(items), Append(sellers, p.val))

\* for key, val in j.items(): the list branch, then the object branch.
RECURSIVE collect_sellers(_, _)
collect_sellers(entries, sellers) ==
    IF entries = <<>> THEN [ok |-> TRUE, ids |-> sellers]
    ELSE LET val == Head(entries)
             aslist == val.kind = "list" /\ val.items # <<>> /\ val.items[1].isdict
             asobject == val.kind = "object" /\ val.hasitems
             got == IF aslist \/ asobject THEN collect_items(val.items, sellers)
                    ELSE [ok |-> TRUE, ids |-> sellers]
         IN  IF ~got.ok THEN got ELSE collect_sellers(Tail(entries), got.ids)

InSeq(x, seq) == \E i \in 1..Len(seq) : seq[i] = x

RECURSIVE dedupe_loop_nodedupe(_, _, _)
dedupe_loop_nodedupe(sellers, out, limit) ==
    IF sellers = <<>> THEN out
    ELSE LET out2 == Append(out, Head(sellers))
         IN  IF Len(out2) >= limit THEN out2
             ELSE dedupe_loop_nodedupe(Tail(sellers), out2, limit)

\* for a in sellers: append a unless seen; then break once len(out) >= limit.
RECURSIVE dedupe_loop(_, _, _)
dedupe_loop(sellers, out, limit) ==
    IF sellers = <<>> THEN out
    ELSE LET a == Head(sellers)
             out2 == IF InSeq(a, out) THEN out ELSE Append(out, a)
         IN  IF Len(out2) >= limit THEN out2
             ELSE dedupe_loop(Tail(sellers), out2, limit)

dedupe_sellers_nodedupe(sellers, limit) == dedupe_loop_nodedupe(sellers, <<>>, limit)

dedupe_sellers(sellers, limit) == dedupe_loop(sellers, <<>>, limit)

fetch_top_sellers(limit, c) ==
    IF c.status # "ok" \/ ~c.isdict THEN <<>>
    ELSE LET got == collect_sellers(c.entries, <<>>)
         IN  IF ~got.ok THEN <<>> ELSE dedupe_sellers(got.ids, limit)

CategoriesFailure(status) == [status |-> status, isdict |-> FALSE, entries |-> <<>>]

CategoriesJson(isdict, entries) == [status |-> "ok", isdict |-> isdict, entries |-> entries]

(***************************************************************************)
(* Inputs of fetch_top_sellers called on its own.                          *)
(***************************************************************************)
MaxLimit == 3

MaxItems == 2

MaxCategories == 2

\* A dict with id 1, one with only appid 2, one with id 0 and appid 3, one
\* with the id "1" as a str, one with neither field, one with the id "x",
\* and an element that is no dict.
Elements ==
    {Element(PyInt(1), PyNone), Element(PyNone, PyInt(2)), Element(PyInt(0), PyInt(3)),
     Element(PyStr(<<"1">>), PyNone), Element(PyNone, PyNone),
     Element(PyStr(<<"x">>), PyNone), NotADict}

SeqsUpTo(S, n) == UNION {[1..k -> S] : k \in 0..n}

CategoryValues ==
    {CategoryScalar, CategoryObject(FALSE, <<>>)} \cup
    {CategoryList(items) : items \in SeqsUpTo(Elements, MaxItems)} \cup
    {CategoryObject(TRUE, items) : items \in SeqsUpTo(Elements, MaxItems)}

CategoriesResponses ==
    {CategoriesFailure(st) : st \in {"neterr", "http", "badjson"}} \cup
    {CategoriesJson(FALSE, <<>>)} \cup
    {CategoriesJson(TRUE, entries) : entries \in SeqsUpTo(CategoryValues, MaxCategories)}

FetchTopSellers ==
    /\ pc = "ready"
    /\ top_ids' = fetch_top_sellers(cat_in.limit, cat_in.categories)
    /\ pc' = "done"
    /\ last' = Call("fetch_top_sellers", 0, FALSE, "", 0, PyNone, PyNone)
    /\ UNCHANGED <<favourites, reviews, clock, resp, listed, cat_in, games, yt_calls>>

(***************************************************************************)
(* The homepage and the search route.                                      *)
(*                                                                         *)
(* scripts[i] holds the details exchanges of the calls made for the i-th   *)
(* id: its first entry answers the first call, its second the second.      *)
(***************************************************************************)
HomeLimit == 9

SearchLimit == 9

\* [get_steam_game(aid) for aid in top_ids if get_steam_game(aid)]: the
\* condition is one call, the value kept is the result of another.
RECURSIVE index_games(_, _, _, _)
index_games(ids, i, scripts, y) ==
    IF i > Len(ids) THEN <<>>
    ELSE LET cond == get_steam_game(PyInt(ids[i]), scripts[i][1], y)
             value == get_steam_game(PyInt(ids[i]), scripts[i][2], y)
         IN  IF cond.game.isnone THEN index_games(ids, i + 1, scripts, y)
             ELSE <<value.game>> \o index_games(ids, i + 1, scripts, y)

index ==
    /\ pc = "ready"
    /\ LET ids == fetch_top_sellers(HomeLimit, cat_in.categories)
       IN  /\ top_ids' = ids
           /\ games' = index_games(ids, 1, cat_in.scripts, cat_in.video)
    /\ resp' = Response("render", "", "", "index.html", 0)
    /\ pc' = "done"
    /\ last' = Call("index", 0, FALSE, "", 0, PyNone, PyNone)
    /\ UNCHANGED <<favourites, reviews, clock, listed, cat_in, yt_calls>>

\* The search exchange x: kind is the type of the JSON document, items its
\* elements when it is a list (the characters when it is a string).
SearchFailure(status) == [status |-> status, kind |-> "null", items |-> <<>>]

SearchJson(kind, items) == [status |-> "ok", kind |-> kind, items |-> items]

SearchItem(appid) == [isdict |-> TRUE, appid |-> appid]

NotAnItem == [isdict |-> FALSE, appid |-> PyNone]

FirstN(seq, n) == SubSeq(seq, 1, IF Len(seq) < n THEN Len(seq) ELSE n)

\* for item in results[:9]: one details call for each; ok is FALSE when
\* item.get raises.
RECURSIVE search_enrich(_, _, _, _)
search_enrich(items, i, scripts, y) ==
    IF i > Len(items) THEN [ok |-> TRUE, enriched |-> <<>>]
    ELSE IF ~items[i].isdict THEN [ok |-> FALSE, enriched |-> <<>>]
    ELSE LET details == get_steam_game(items[i].appid, scripts[i][1], y).game
             rest == search_enrich(items, i + 1, scripts, y)
         IN  IF ~rest.ok THEN rest
             ELSE [ok |-> TRUE,
                   enriched |-> IF details.isnone THEN rest.enriched
                                ELSE <<details>> \o rest.enriched]

\* search on the query parameter q (PyNone when absent): the response and
\* the list handed to the template.
search_outcome(q, x, scripts, y) ==
    LET query == Strip(IF q.t = "str" THEN q.s ELSE <<>>)
        results == IF x.status = "ok" THEN x ELSE SearchJson("list", <<>>)
        r == search_enrich(FirstN(results.items, SearchLimit), 1, scripts, y)
    IN  IF query = <<>>
        THEN [resp |-> Response("redirect", "Please enter a search term.", "warning",
                                "index", 0),
              raised |-> "", enriched |-> <<>>]
        ELSE IF results.kind \notin {"list", "string"}
        THEN [resp |-> ServerError, raised |-> "TypeError", enriched |-> <<>>]
        ELSE IF ~r.ok
        THEN [resp |-> ServerError, raised |-> "AttributeError", enriched |-> <<>>]
        ELSE [resp |-> Response("render", "", "", "search_results.html", 0),
              raised |-> "", enriched |-> r.enriched]

search ==
    /\ pc = "ready"
    /\ LET r == search_outcome(cat_in.q, cat_in.results, cat_in.scripts, cat_in.video)
       IN  /\ resp' = r.resp
           /\ games' = r.enriched
           /\ last' = Call("search", 0, FALSE, r.raised, 0, PyNone, PyNone)
    /\ pc' = "done"
    /\ UNCHANGED <<favourites, reviews, clock, listed, cat_in, top_ids, yt_calls>>

(***************************************************************************)
(* Inputs of the homepage and of the search route.                         *)
(***************************************************************************)
MaxRun == 6

MaxFailing == 2

MaxResults == 2

DetailsDown == DetailsFailure("neterr")

DetailsFine ==
    DetailsJson(TRUE, TRUE, GameName, <<Movie(Media(UrlWebmMax, PyNone), NoMedia)>>)

VideoDown == [status |-> "neterr", video_id |-> PyNone]

\* The details exchanges of up to nine ids, two calls each, of which at most
\* MaxFailing ids see a call fail.
Scripts ==
    {sc \in [1..HomeLimit -> {DetailsDown, DetailsFine} \X {DetailsDown, DetailsFine}] :
        Cardinality({i \in 1..HomeLimit : sc[i] # <<DetailsFine, DetailsFine>>})
            <= MaxFailing}

\* The elements with the ids a, a + 1, ..., a + n - 1.
Run(a, n) == [i \in 1..n |-> Element(PyInt(a + i - 1), PyNone)]

\* A list of the ids 1..n followed by an object whose items are m ids from b
\* on, which repeat the last ids of the list when b <= n.
HomeCategories ==
    {CategoriesFailure("neterr"),
     CategoriesJson(TRUE, <<CategoryList(Run(1, 2) \o <<NotADict>>)>>)} \cup
    {CategoriesJson(TRUE, <<CategoryList(Run(1, n)), CategoryObject(TRUE, Run(b, m))>>) :
        n \in {2, MaxRun}, b \in {MaxRun - 1, MaxRun + 1}, m \in {0, MaxRun}}

SearchQueries == {PyNone, PyStr(<<" ">>), PyStr(<<" ", "c", "s">>)}

SearchItems ==
    {SearchItem(PyInt(10)), SearchItem(PyStr(<<"2", "0">>)), SearchItem(PyNone),
     NotAnItem}

SearchResponses ==
    {SearchFailure(st) : st \in {"neterr", "http", "badjson"}} \cup
    {SearchJson("object", <<>>), SearchJson("number", <<>>), SearchJson("null", <<>>),
     SearchJson("string", <<>>), SearchJson("string", <<NotAnItem, NotAnItem>>),
     SearchJson("list", [i \in 1..(SearchLimit + 1) |-> SearchItem(PyInt(i))])} \cup
    {SearchJson("list", items) : items \in SeqsUpTo(SearchItems, MaxResults)}

(***************************************************************************)
(* Inputs of the store operations.                                         *)
(***************************************************************************)
\* The appid form field: absent, empty, "1", "01", " 2" and "x".
AppidForms ==
    {PyNone, PyStr(<<>>), PyStr(<<"1">>), PyStr(<<"0", "1">>), PyStr(<<" ", "2">>),
     PyStr(<<"x">>)}

\* The name and image form fields, and the Referer header, of a submission.
FavForms ==
    {[name |-> PyNone, image |-> PyNone, referrer |-> PyNone],
     [name |-> PyStr(<<>>), image |-> PyStr(<<"i">>), referrer |-> PyStr(<<"/", "g">>)],
     [name |-> PyStr(<<"C", "S">>), image |-> PyNone, referrer |-> PyNone],
     [name |-> PyStr(<<"H", "L">>), image |-> PyStr(<<"i">>),
      referrer |-> PyStr(<<"/", "g">>)]}

\* The rating and text form fields of a review submission.
ReviewForms ==
    {[rating |-> PyNone, text |-> PyStr(<<"o", "k">>)],
     [rating |-> PyNone, text |-> PyNone],
     [rating |-> PyStr(<<>>), text |-> PyNone],
     [rating |-> PyStr(<<"5">>), text |-> PyNone],
     [rating |-> PyStr(<<"5">>), text |-> PyStr(<<>>)],
     [rating |-> PyStr(<<"5">>), text |-> PyStr(<<" ">>)],
     [rating |-> PyStr(<<"5">>), text |-> PyStr(<<" ", "o", "k", " ">>)],
     [rating |-> PyStr(<<" ">>), text |-> PyStr(<<"o", "k">>)],
     [rating |-> PyStr(<<"x">>), text |-> PyStr(<<"o", "k">>)]}

\* The ids the callers of the data-access functions and the <int:appid> path carry.
AppIds == {1, 2}

(***************************************************************************)
(* Store operations called directly.                                       *)
(***************************************************************************)
AddFavouriteDb ==
    \E a \in AppIds, f \in {g \in FavForms : Truthy(g.name)} :
        LET r == add_favourite_db(favourites, PyInt(a), f.name, f.image, clock)
        IN  /\ NextId(favourites) <= MaxFavId
            /\ favourites' = r.favs
            /\ last' = Call("add_favourite_db", a, r.ret, r.raised, 0, PyNone, PyNone)
            /\ resp' = NoResponse
            /\ listed' = <<>>
            /\ UNCHANGED <<reviews, clock, catalog_vars>>

RemoveFavouriteDb ==
    \E a \in AppIds :
        LET r == remove_favourite_db(favourites, PyInt(a))
        IN  /\ favourites' = r.favs
            /\ last' = Call("remove_favourite_db", a, r.ret, r.raised, 0, PyNone, PyNone)
            /\ resp' = NoResponse
            /\ listed' = <<>>
            /\ UNCHANGED <<reviews, clock, catalog_vars>>

AddReviewDb ==
    \E a \in AppIds :
        LET r == add_review_db(reviews, PyInt(a), PyInt(4), PyStr(<<"o", "k", " ">>), clock)
        IN  /\ Len(reviews) < MaxReviews
            /\ reviews' = r.revs
            /\ last' = Call("add_review_db", a, r.ret, r.raised,
                            IF r.ret THEN NextId(reviews) ELSE 0, PyNone, PyNone)
            /\ resp' = NoResponse
            /\ listed' = <<>>
            /\ UNCHANGED <<favourites, clock, catalog_vars>>

GetReviewsForApp ==
    \E a \in AppIds : \E rows \in get_reviews_for_app(reviews, PyInt(a)) :
        /\ listed' = rows
        /\ last' = Call("get_reviews_for_app", a, FALSE, "", 0, PyNone, PyNone)
        /\ resp' = NoResponse
        /\ UNCHANGED <<favourites, reviews, clock, catalog_vars>>

(***************************************************************************)
(* The form routes.                                                        *)
(***************************************************************************)
favourites_add ==
    \E appid \in AppidForms, f \in FavForms :
        /\ NextId(favourites) <= MaxFavId
        /\ listed' = <<>>
        /\ UNCHANGED <<reviews, clock, catalog_vars>>
        /\ IF ~Truthy(appid) \/ ~Truthy(f.name)
           THEN /\ resp' = Response("redirect", "Missing game details.", "warning",
                                    ReferrerOr(f.referrer, "index"), 0)
                /\ last' = Call("favourites_add", 0, FALSE, "", 0, PyNone, PyNone)
                /\ UNCHANGED favourites
           ELSE LET r == add_favourite_db(favourites, appid, f.name, f.image, clock)
                IN  /\ favourites' = r.favs
                    /\ last' = Call("favourites_add", PyIntOf(appid).val, r.ret, r.raised,
                                    0, PyNone, PyNone)
                    /\ resp' = IF r.raised # "" THEN ServerError
                               ELSE Response("redirect",
                                             IF r.ret THEN "Added to favourites."
                                             ELSE "Already in favourites.",
                                             "info",
                                             ReferrerOr(f.referrer, "favourites_page"), 0)

favourites_remove ==
    \E appid \in AppidForms :
        /\ listed' = <<>>
        /\ UNCHANGED <<reviews, clock, catalog_vars>>
        /\ IF ~Truthy(appid)
           THEN /\ resp' = Response("redirect", "No app specified.", "warning",
                                    "favourites_page", 0)
                /\ last' = Call("favourites_remove", 0, FALSE, "", 0, PyNone, PyNone)
                /\ UNCHANGED favourites
           ELSE LET r == remove_favourite_db(favourites, appid)
                IN  /\ favourites' = r.favs
                    /\ last' = Call("favourites_remove", PyIntOf(appid).val, r.ret,
                                    r.raised, 0, PyNone, PyNone)
                    /\ resp' = IF r.raised # "" THEN ServerError
                               ELSE Response("redirect",
                                             IF r.ret THEN "Removed from favourites."
                                             ELSE "Not in favourites.",
                                             "info", "favourites_page", 0)

\* The outcome of add_review_route: `not rating` is decided first, and only then
\* is text.strip() evaluated, which raises AttributeError on a missing field.
add_review_route_outcome(revs, appid, rating, text, now) ==
    IF ~Truthy(rating)
    THEN [revs |-> revs, ret |-> FALSE, raised |-> "", warned |-> TRUE]
    ELSE IF text.t # "str"
    THEN [revs |-> revs, ret |-> FALSE, raised |-> "AttributeError", warned |-> FALSE]
    ELSE IF Strip(text.s) = <<>>
    THEN [revs |-> revs, ret |-> FALSE, raised |-> "", warned |-> TRUE]
    ELSE LET r == add_review_db(revs, PyInt(appid), rating, text, now)
         IN  [revs |-> r.revs, ret |-> r.ret, raised |-> r.raised, warned |-> FALSE]

add_review_route ==
    \E appid \in AppIds, f \in ReviewForms :
        LET r == add_review_route_outcome(reviews, appid, f.rating, f.text, clock)
        IN  /\ Len(reviews) < MaxReviews
            /\ reviews' = r.revs
            /\ last' = Call("add_review_route", appid, r.ret, r.raised,
                            IF r.ret THEN NextId(reviews) ELSE 0, f.rating, f.text)
            /\ resp' = IF r.raised # "" THEN ServerError
                       ELSE IF r.warned
                       THEN Response("redirect",
                                     "Please provide both a rating and a review.",
                                     "warning", "game_detail", appid)
                       ELSE Response("redirect", "Review submitted!", "success",
                                     "game_detail", appid)
            /\ listed' = <<>>
            /\ UNCHANGED <<favourites, clock, catalog_vars>>

\* Time passes between two requests.
Tick ==
    /\ clock < MaxClock
    /\ clock' = clock + 1
    /\ UNCHANGED <<favourites, reviews, last, resp, listed, catalog_vars>>

InitStore ==
    /\ favourites = <<>>
    /\ reviews = <<>>
    /\ clock = 0
    /\ last = NoCall
    /\ resp = NoResponse
    /\ listed = <<>>

InitCatalog ==
    /\ pc = "idle"
    /\ cat_in = <<>>
    /\ top_ids = <<>>
    /\ games = <<>>
    /\ yt_calls = <<>>

Init == InitStore /\ InitCatalog

InitDetails ==
    /\ InitStore
    /\ pc = "ready"
    /\ cat_in \in [appid : {10}, details : DetailsResponses, video : VideoResponses]
    /\ top_ids = <<>>
    /\ games = <<>>
    /\ yt_calls = <<>>

NextDetails == GetSteamGame

InitTopSellers ==
    /\ InitStore
    /\ pc = "ready"
    /\ cat_in \in [limit : 0..MaxLimit, categories : CategoriesResponses]
    /\ top_ids = <<>>
    /\ games = <<>>
    /\ yt_calls = <<>>

NextTopSellers == FetchTopSellers

SpecTopSellers == InitTopSellers /\ [][NextTopSellers]_vars

InitHome ==
    /\ InitStore
    /\ pc = "ready"
    /\ cat_in \in [categories : HomeCategories, scripts : Scripts, video : {VideoDown}]
    /\ top_ids = <<>>
    /\ games = <<>>
    /\ yt_calls = <<>>

NextHome == index

SpecHome == InitHome /\ [][NextHome]_vars

InitSearch ==
    /\ InitStore
    /\ pc = "ready"
    /\ cat_in \in [q : SearchQueries, results : SearchResponses, scripts : Scripts,
                   video : {VideoDown}]
    /\ top_ids = <<>>
    /\ games = <<>>
    /\ yt_calls = <<>>

NextSearch == search

SpecSearch == InitSearch /\ [][NextSearch]_vars

SpecDetails == InitDetails /\ [][NextDetails]_vars

\* The favourites operations, with reviews being added meanwhile.  No operation
\* here reads added_at, so the clock is left where it starts.
NextFavourites ==
    \/ AddFavouriteDb
    \/ RemoveFavouriteDb
    \/ favourites_add
    \/ favourites_remove
    \/ AddReviewDb

SpecFavourites == Init /\ [][NextFavourites]_vars

\* The reviews operations, with time passing.
NextReviews ==
    \/ AddReviewDb
    \/ GetReviewsForApp
    \/ add_review_route
    \/ Tick

SpecReviews == Init /\ [][NextReviews]_vars

(***************************************************************************)
(* Properties of the favourites table.                                     *)
(***************************************************************************)
HasRow(favs, a) == \E i \in 1..Len(favs) : favs[i].appid = a

RowsWith(favs, a) == {i \in 1..Len(favs) : favs[i].appid = a}

\* The last call was add_favourite_db, direct or through the route, and returned.
AddRan ==
    /\ last.raised = ""
    /\ \/ last.op = "add_favourite_db"
       \/ last.op = "favourites_add" /\ resp.category = "info"

\* The last call was remove_favourite_db, direct or through the route, and returned.
RemoveRan ==
    /\ last.raised = ""
    /\ \/ last.op = "remove_favourite_db"
       \/ last.op = "favourites_remove" /\ resp.category = "info"

\* C1: the favourites table never holds two rows with the same appid, and after
\* an add of an appid, whatever it returned, exactly one row has that appid.
C1_UniqueExternalId ==
    /\ \A i, j \in 1..Len(favourites) :
           i # j => favourites[i].appid # favourites[j].appid
    /\ AddRan => Cardinality(RowsWith(favourites, last.appid)) = 1

\* The same appid was posted again through the route, in another spelling of the
\* number, and the table holds its one row beside another app's.
C1_Witness ==
    /\ last.op = "favourites_add"
    /\ resp.flash = "Already in favourites."
    /\ Len(favourites) = 2
    /\ Cardinality(RowsWith(favourites, last.appid)) = 1

C2_Step ==
    /\ (AddRan' /\ ~HasRow(favourites, last'.appid)) =>
           /\ last'.ret
           /\ Len(favourites') = Len(favourites) + 1
           /\ favourites'[Len(favourites')].appid = last'.appid
           /\ SubSeq(favourites', 1, Len(favourites)) = favourites
    /\ (AddRan /\ last.ret /\ AddRan' /\ last'.appid = last.appid) =>
           /\ ~last'.ret
           /\ favourites' = favourites
           /\ reviews' = reviews

\* C2: an add of an appid that has no row appends a row for it and returns true;
\* an add of the same appid right after a successful add returns false and
\* leaves both tables as they are, whatever name and image it carries.
C2_AddThenAddAgain == [][C2_Step]_vars

\* The second add was refused although it carried another name and image than
\* the row has.
C2_Witness ==
    /\ AddRan
    /\ ~last.ret
    /\ \E i \in 1..Len(favourites) :
           /\ favourites[i].appid = last.appid
           /\ favourites[i].name = PyStr(<<"C", "S">>)
    /\ resp.target = "referrer"

C10_Step ==
    RemoveRan' =>
        IF HasRow(favourites, last'.appid)
        THEN /\ last'.ret
             /\ ~HasRow(favourites', last'.appid)
             /\ Len(favourites') = Len(favourites) - 1
             /\ reviews' = reviews
        ELSE /\ ~last'.ret
             /\ favourites' = favourites
             /\ reviews' = reviews

\* C10: a remove of an appid without a row returns false and changes neither
\* table; a remove of an appid with a row returns true and leaves no row of
\* that appid.
C10_RemoveFavourite == [][C10_Step]_vars

\* A remove found no row while both tables held rows.
C10_Witness ==
    /\ RemoveRan
    /\ ~last.ret
    /\ favourites # <<>>
    /\ reviews # <<>>

\* A remove deleted the row while another app's row and a review stayed.
C10_WitnessDeleted ==
    /\ RemoveRan
    /\ last.ret
    /\ favourites # <<>>
    /\ reviews # <<>>

(***************************************************************************)
(* Properties of the reviews table.                                        *)
(***************************************************************************)
\* A form field that is present and not blank.
PresentNonBlank(v) == v.t = "str" /\ Strip(v.s) # <<>>

C5_Step ==
    last'.op = "add_review_route" =>
        /\ reviews' # reviews =>
               PresentNonBlank(last'.rating) /\ PresentNonBlank(last'.text)
        /\ ~(PresentNonBlank(last'.rating) /\ PresentNonBlank(last'.text)) =>
               /\ last'.raised = ""
               /\ resp'.kind = "redirect"
               /\ resp'.category = "warning"
               /\ resp'.target = "game_detail"
               /\ reviews' = reviews

\* C5: the review route inserts only when rating and text are both present and
\* not blank, and answers every other submission with the warning and the
\* redirect to the detail view, inserting nothing and raising nothing.
C5_ReviewValidation == [][C5_Step]_vars

\* The last call added a review.
AddedReview == last.op \in {"add_review_db", "add_review_route"} /\ last.ret

C8_Step ==
    (AddedReview /\ last'.op = "get_reviews_for_app" /\ last'.appid = last.appid) =>
        /\ listed' # <<>>
        /\ listed'[1].id = last.newid

\* C8: the list get_reviews_for_app returns right after a review of the same
\* app was added starts with that review.
C8_NewReviewFirst == [][C8_Step]_vars

(***************************************************************************)
(* Properties of the details call.                                         *)
(***************************************************************************)
\* The urls of a movie in the order webm max, webm 480, mp4 max, mp4 480.
Slots(m) ==
    <<MediaGet(m.webm, "max"), MediaGet(m.webm, "480"),
      MediaGet(m.mp4, "max"), MediaGet(m.mp4, "480")>>

RECURSIVE FirstUrl(_)
FirstUrl(urls) ==
    IF urls = <<>> THEN PyNone
    ELSE IF Truthy(Head(urls)) THEN Head(urls)
    ELSE FirstUrl(Tail(urls))

RECURSIVE AllSlots(_)
AllSlots(movies) ==
    IF movies = <<>> THEN <<>> ELSE Slots(Head(movies)) \o AllSlots(Tail(movies))

\* get_steam_game has returned a game.
DetailsDone == pc = "done" /\ last.op = "get_steam_game" /\ ~games[1].isnone

\* What the video fallback yields on the video exchange.
Resolved(y) ==
    IF y.status = "ok" /\ y.video_id.t = "str"
    THEN PyStr(EmbedPrefix \o y.video_id.s) ELSE PyNone

TrailerFrom(native) ==
    IF Truthy(native)
    THEN games[1].trailer_url = native /\ yt_calls = <<>>
    ELSE /\ yt_calls = <<cat_in.details.name>>
         /\ games[1].trailer_url = Resolved(cat_in.video)

\* C7 as stated: the trailer is the first url in preference order found in the
\* item's movie media, all of its movies, and the fallback is called only
\* when no movie has one.
C7_AnyMovieTrailer == DetailsDone => TrailerFrom(FirstUrl(AllSlots(cat_in.details.movies)))

\* C7: the trailer is the first url of the FIRST movie in the order webm max,
\* webm 480, mp4 max, mp4 480, and then the fallback is not called; when the
\* first movie has none, or there is no movie, the fallback is called once
\* with the item's name and its result, a url or None, is the trailer.
C7_FirstMovieTrailer ==
    DetailsDone =>
        TrailerFrom(IF cat_in.details.movies = <<>> THEN PyNone
                    ELSE FirstUrl(Slots(cat_in.details.movies[1])))

\* The first movie has no webm max but a webm 480 and both mp4 urls: the
\* webm 480 is the trailer and the fallback was not called.
C7_Witness ==
    /\ DetailsDone
    /\ cat_in.details.movies # <<>>
    /\ cat_in.details.movies[1].webm = Media(PyNone, UrlWebm480)
    /\ cat_in.details.movies[1].mp4 = Media(UrlMp4Max, UrlMp4480)
    /\ games[1].trailer_url = UrlWebm480
    /\ yt_calls = <<>>

\* The first movie has no url: the fallback was called and found a video.
C7_WitnessFallback ==
    /\ DetailsDone
    /\ cat_in.details.movies # <<>>
    /\ yt_calls = <<GameName>>
    /\ games[1].trailer_url = PyStr(EmbedPrefix \o <<"a", "b", "c">>)

(***************************************************************************)
(* Properties of the catalog pipeline.                                     *)
(***************************************************************************)
NoDuplicates(seq) == \A i, j \in 1..Len(seq) : i # j => seq[i] # seq[j]

\* The elements of seq, each at its first place only.
RECURSIVE FirstSeen(_)
FirstSeen(seq) ==
    IF seq = <<>> THEN <<>>
    ELSE LET before == FirstSeen(SubSeq(seq, 1, Len(seq) - 1))
         IN  IF InSeq(seq[Len(seq)], before) THEN before
             ELSE Append(before, seq[Len(seq)])

\* The categories call failed: an exchange that raises, or a document that
\* makes the flattening raise.
CategoriesFailed(c) ==
    c.status # "ok" \/ ~c.isdict \/ ~collect_sellers(c.entries, <<>>).ok

\* The ids in the order in which the flattening first sees them.
Discovery(c) ==
    IF CategoriesFailed(c) THEN <<>> ELSE FirstSeen(collect_sellers(c.entries, <<>>).ids)

IsPrefix(a, b) == Len(a) <= Len(b) /\ SubSeq(b, 1, Len(a)) = a

TopSellersDone == pc = "done" /\ last.op = "fetch_top_sellers"

TopSellersContract ==
    /\ Len(top_ids) <= cat_in.limit
    /\ NoDuplicates(top_ids)
    /\ IsPrefix(top_ids, Discovery(cat_in.categories))
    /\ Len(top_ids) < cat_in.limit => top_ids = Discovery(cat_in.categories)
    /\ CategoriesFailed(cat_in.categories) => top_ids = <<>>

\* C4: for every limit >= 0 fetch_top_sellers(limit) returns at most limit
\* ids, none twice, in the order of their first appearance in the flattened
\* response, and the empty sequence on any failure.
C4_TopSellers == TopSellersDone => TopSellersContract

\* The same for the limits from 1 on, where the code keeps it.
C4_FromLimitOne == (TopSellersDone /\ cat_in.limit >= 1) => TopSellersContract

HomeDone == pc = "done" /\ last.op = "index"

\* C3: no None is among the games handed to the homepage, whatever each
\* details call returns, and the page is rendered.
C3_NoFailedEntry ==
    HomeDone =>
        /\ resp.kind = "render"
        /\ \A i \in 1..Len(games) : ~games[i].isnone

\* The places among the first nine discovered ids whose id passed the
\* filter of the homepage, in order.
Survivors ==
    LET disc == FirstN(Discovery(cat_in.categories), HomeLimit)
    IN  SelectSeq([i \in 1..Len(disc) |-> i],
                  LAMBDA i : cat_in.scripts[i][1] = DetailsFine)

\* C9: the homepage feed has at most nine entries, no two of them carry the
\* same appid, and its entries stand for the surviving ids in discovery
\* order: the k-th entry is that of the k-th surviving id.
C9_HomeFeed ==
    HomeDone =>
        /\ Len(games) <= HomeLimit
        /\ \A i, j \in 1..Len(games) :
               (i # j /\ ~games[i].isnone /\ ~games[j].isnone) =>
                   games[i].appid # games[j].appid
        /\ Len(games) = Len(Survivors)
        /\ \A k \in 1..Len(games) :
               games[k].isnone \/
               games[k].appid = PyInt(Discovery(cat_in.categories)[Survivors[k]])

\* More than nine ids were discovered, some of them twice upstream, and the
\* filter dropped one of the first nine: eight entries are shown.
C9_Witness ==
    /\ HomeDone
    /\ Len(Discovery(cat_in.categories)) > HomeLimit
    /\ Len(collect_sellers(cat_in.categories.entries, <<>>).ids)
           > Len(Discovery(cat_in.categories))
    /\ Len(games) = HomeLimit - 1
    /\ \A i \in 1..Len(games) : ~games[i].isnone
    /\ games[Len(games)].appid = PyInt(HomeLimit)

SearchDone == pc = "done" /\ last.op = "search"

\* C6: a search with a non-empty q always ends by rendering the result
\* list, whatever the search exchange returns, and raises nothing.
C6_SearchNeverRaises ==
    (SearchDone /\ cat_in.q.t = "str" /\ Strip(cat_in.q.s) # <<>>) =>
        /\ last.raised = ""
        /\ resp.kind = "render"

====
